---- MODULE Spec2Model ----
(***************************************************************************)
(* Model of github.com/mvndaai/ctxerr: the depth-first error iterator of   *)
(* package joinederr and the field aggregation of package ctxerr           *)
(* (AllFields, HasField, HasCategory) that drives it.                      *)
(***************************************************************************)
EXTENDS Integers, Sequences, FiniteSets, TLC

VARIABLES
    tree,      \* the error values: node id -> [kind, wrapped, errs]
    fields,    \* node id -> the map the node's Fields() method returns
    made,      \* TRUE once NewDepthFirstIterator has been called
    root,      \* the error the iterator was created on
    bfu,       \* the depthFirstUnwrapper: [next, nextParent]
    r,         \* what the last Next call returned
    hn,        \* what the last HasNext call returned ("none" before any)
    out,       \* the non-nil errors Next has returned so far, in order
    nilSeen,   \* TRUE once a Next call has returned nil
    in,        \* the ctxerr.Instance (the hooks, FieldsAsSlice, GetFieldsFuncs)
    ret,       \* the last aggregator call: [op, err, field, category, map, ok]
    store,     \* joined error id -> the array backing the list it unwraps to
    calls,     \* the traversals in progress side by side: call id -> frame
    fieldsMap, \* node id -> the map the node's FieldsMap() method returns
    ctxs,      \* the field maps made for contexts: map id -> keys and values
    errctx,    \* node id -> the context (its map id) an impl was created with
    hooklog,   \* the hooks the last operation ran, in order
    last       \* the last operation on contexts and errors and its result

vars == <<tree, fields, made, root, bfu, r, hn, out, nilSeen, in, ret,
          store, calls, fieldsMap, ctxs, errctx, hooklog, last>>

\* The variables only the later specifications use.
ctxVars == <<ctxs, errctx, hooklog, last>>
restVars == <<store, calls, fieldsMap, ctxVars>>

(***************************************************************************)
(* Bounds                                                                  *)
(***************************************************************************)
MaxNodes == 3            \* nodes of an enumerated error tree
MaxJoin == 2             \* length of the list a joined error unwraps to
MaxObjects == 3          \* contexts and errors made by the package
MaxCalls == 2            \* AllFields calls of one caller

Nil == 0                 \* the nil error

(***************************************************************************)
(* Error values.  A node is a plain error (no Unwrap method), a wrapping   *)
(* error (Unwrap() error, which may return nil) or a joined error          *)
(* (Unwrap() []error, whose list may be empty or hold nil entries).        *)
(***************************************************************************)
Plain == [kind |-> "plain", wrapped |-> Nil, errs |-> <<>>]
Wrapping(e) == [kind |-> "wrap", wrapped |-> e, errs |-> <<>>]
Joined(es) == [kind |-> "join", wrapped |-> Nil, errs |-> es]

EmptyTab == [n \in {} |-> Plain]

\* Trees of exactly `size` nodes, numbered first, first+1, ... in the order
\* a parent precedes its successors; ListsAt gives the successor lists of a
\* joined error with at most `slots` entries.  With nilOk a list may be
\* empty or hold nil entries and a wrapping error may wrap nil.
RECURSIVE TreesAt(_, _, _), ListsAt(_, _, _, _)
ListsAt(first, size, slots, nilOk) ==
    (IF size = 0 THEN {[errs |-> <<>>, tab |-> EmptyTab]} ELSE {})
    \cup
    (IF slots = 0 THEN {}
     ELSE (IF nilOk
           THEN {[errs |-> <<Nil>> \o l.errs, tab |-> l.tab] :
                     l \in ListsAt(first, size, slots - 1, nilOk)}
           ELSE {})
          \cup
          UNION {{[errs |-> <<first>> \o l.errs, tab |-> t @@ l.tab] :
                      t \in TreesAt(first, a, nilOk),
                      l \in ListsAt(first + a, size - a, slots - 1, nilOk)} :
                 a \in 1..size})

TreesAt(first, size, nilOk) ==
    (IF size = 1
     THEN {first :> Plain} \cup (IF nilOk THEN {first :> Wrapping(Nil)} ELSE {})
     ELSE {(first :> Wrapping(first + 1)) @@ t :
               t \in TreesAt(first + 1, size - 1, nilOk)})
    \cup
    {(first :> Joined(l.errs)) @@ l.tab :
         l \in {x \in ListsAt(first + 1, size - 1, MaxJoin, nilOk) :
                    nilOk \/ x.errs # <<>>}}

\* Every tree of at most MaxNodes nodes, those of them whose joined errors
\* list one or more errors and no nil, and those of fewer than MaxNodes nodes.
EnumTrees == UNION {TreesAt(1, n, TRUE) : n \in 1..MaxNodes}
ProperTrees == UNION {TreesAt(1, n, FALSE) : n \in 1..MaxNodes}
SmallTrees == UNION {TreesAt(1, n, TRUE) : n \in 1..(MaxNodes - 1)}

\* The tree of TestBreadthFirst: a, b and g each wrap an errors.Join.
\*   a=1 -> join 2 [b=3, f=8];  b=3 -> join 4 [c=5, e=7];  c=5 -> d=6;
\*   f=8 -> g=9;  g=9 -> join 10 [h=11, i=12]
BreadthFirstTree ==
    (1 :> Wrapping(2)) @@ (2 :> Joined(<<3, 8>>)) @@
    (3 :> Wrapping(4)) @@ (4 :> Joined(<<5, 7>>)) @@
    (5 :> Wrapping(6)) @@ (6 :> Plain) @@ (7 :> Plain) @@
    (8 :> Wrapping(9)) @@ (9 :> Wrapping(10)) @@ (10 :> Joined(<<11, 12>>)) @@
    (11 :> Plain) @@ (12 :> Plain)

\* The tree of TestJoined: c=1 wraps errors.Join(a=3, b=4).
JoinedTree ==
    (1 :> Wrapping(2)) @@ (2 :> Joined(<<3, 4>>)) @@ (3 :> Plain) @@ (4 :> Plain)

\* An error wrapping errors.Join(errors.Join(x=4), b=5).
NestedJoinTree ==
    (1 :> Wrapping(2)) @@ (2 :> Joined(<<3, 5>>)) @@ (3 :> Joined(<<4>>)) @@
    (4 :> Plain) @@ (5 :> Plain)

Errors == DOMAIN tree \cup {Nil}

(***************************************************************************)
(* joinederr.depthFirstUnwrapper                                           *)
(***************************************************************************)
HasUnwrapMany(e) == e # Nil /\ tree[e].kind = "join"
HasUnwrapOne(e) == e # Nil /\ tree[e].kind = "wrap"

\* A variant of SplitJoined that puts the remaining entries behind the
\* pending ones.
SplitJoinedBack(it) ==
    IF HasUnwrapMany(it.next) /\ Len(tree[it.next].errs) > 0
    THEN [next |-> tree[it.next].errs[1],
          nextParent |-> it.nextParent \o Tail(tree[it.next].errs)]
    ELSE it

\* Next, "Split joined errors": a joined candidate is replaced by its first
\* entry and the remaining entries go in front of the pending ones.
SplitJoined(it) ==
    IF HasUnwrapMany(it.next)
    THEN LET errs == tree[it.next].errs
         IN  IF Len(errs) > 0
             THEN [next |-> errs[1], nextParent |-> Tail(errs) \o it.nextParent]
             ELSE it
    ELSE it

\* A variant of SetupNext that leaves the pending errors alone.
SetupNextNoPending(rv, pending) ==
    LET unwrapped == IF HasUnwrapOne(rv) THEN tree[rv].wrapped ELSE Nil
    IN  [next |-> unwrapped, nextParent |-> pending]

\* Next, "Setup next return value": the returned error's Unwrap() result,
\* or else the first pending error, or else nil.
SetupNext(rv, pending) ==
    LET unwrapped == IF HasUnwrapOne(rv) THEN tree[rv].wrapped ELSE Nil
    IN  IF unwrapped # Nil
        THEN [next |-> unwrapped, nextParent |-> pending]
        ELSE IF Len(pending) > 0
             THEN [next |-> pending[1], nextParent |-> Tail(pending)]
             ELSE [next |-> Nil, nextParent |-> pending]

\* One call of Next on iterator state `it`: the value returned and the
\* iterator state it leaves.
IterNext(it) ==
    IF it.next = Nil
    THEN [r |-> Nil, it |-> it]
    ELSE LET s == SplitJoined(it)
         IN  [r |-> s.next, it |-> SetupNext(s.next, s.nextParent)]

IterHasNext(it) == it.next # Nil

NewIterator(err) == [next |-> err, nextParent |-> <<>>]

(***************************************************************************)
(* Slices.  The list a joined error unwraps to is a slice of an array the  *)
(* error keeps (errors.Join and fmt.Errorf hand out their own slice), and  *)
(* that array can be longer than the list.  The pending errors of an       *)
(* iterator are a slice too: of an array of their own, or of the array of  *)
(* a joined error, [arr, lo, hi] standing for arr[lo:hi].                  *)
(***************************************************************************)
OwnSlice(items) == [arr |-> Nil, lo |-> 0, hi |-> 0, own |-> items]
ViewSlice(j, lo, hi) == [arr |-> j, lo |-> lo, hi |-> hi, own |-> <<>>]

Items(st, s) ==
    IF s.arr = Nil THEN s.own ELSE SubSeq(st[s.arr], s.lo + 1, s.hi)

SliceLen(s) == IF s.arr = Nil THEN Len(s.own) ELSE s.hi - s.lo

\* s[1:]
SliceTail(s) ==
    IF s.arr = Nil THEN OwnSlice(Tail(s.own)) ELSE ViewSlice(s.arr, s.lo + 1, s.hi)

\* The arrays as the errors are built: the list, then unused room up to the
\* capacity.
NewStore(t, caps) ==
    [j \in DOMAIN caps |->
        [i \in 1..caps[j] |-> IF i <= Len(t[j].errs) THEN t[j].errs[i] ELSE Nil]]

\* append(errs[1:], bfu.nextParent...) for the list errs of joined error j:
\* with nothing to append errs[1:] itself, with room in the array the
\* pending errors are written behind the list, otherwise a new array.
AppendPending(st, j, pending) ==
    LET n == Len(tree[j].errs)
        c == Len(st[j])
        p == Items(st, pending)
    IN  IF Len(p) = 0
        THEN [s |-> ViewSlice(j, 1, n), st |-> st]
        ELSE IF n + Len(p) <= c
             THEN [s |-> ViewSlice(j, 1, n + Len(p)),
                   st |-> [st EXCEPT ![j] =
                              [i \in 1..c |->
                                  IF i > n /\ i <= n + Len(p) THEN p[i - n] ELSE @[i]]]]
             ELSE [s |-> OwnSlice(SubSeq(st[j], 2, n) \o p), st |-> st]

\* One call of Next with the slices kept as slices: the value returned, the
\* iterator state and the arrays it leaves.
SharedNext(st, it) ==
    IF it.next = Nil
    THEN [r |-> Nil, it |-> it, st |-> st]
    ELSE LET split ==
                 IF HasUnwrapMany(it.next) /\ Len(tree[it.next].errs) > 0
                 THEN LET a == AppendPending(st, it.next, it.nextParent)
                      IN  [next |-> st[it.next][1], nextParent |-> a.s, st |-> a.st]
                 ELSE [next |-> it.next, nextParent |-> it.nextParent, st |-> st]
             rv == split.next
             unwrapped == IF HasUnwrapOne(rv) THEN tree[rv].wrapped ELSE Nil
             np == split.nextParent
         IN  [r |-> rv, st |-> split.st,
              it |-> IF unwrapped # Nil
                     THEN [next |-> unwrapped, nextParent |-> np]
                     ELSE IF SliceLen(np) > 0
                          THEN [next |-> Items(split.st, np)[1],
                                nextParent |-> SliceTail(np)]
                          ELSE [next |-> Nil, nextParent |-> np]]

SharedNewIterator(err) == [next |-> err, nextParent |-> OwnSlice(<<>>)]

(***************************************************************************)
(* Field maps.  A Go map is [nil, kv]; a value of the map AllFields        *)
(* returns is either the value a node set or, for a key gathered as a      *)
(* slice, the []any of the values set.                                     *)
(***************************************************************************)
FieldKeyCategory == "error_category"
FieldKeyLocation == "error_location"
FieldNames == {FieldKeyCategory, FieldKeyLocation}

NilVal == 0              \* the nil value of type any
CategoryValues == {NilVal, 1, 2}

\* A value of a type that == cannot compare (a slice, a map, a function).
SliceValue == 0 - 1

\* c == category on two values of type any: a run-time panic when both are
\* of the same uncomparable type.
ComparePanics(c, category) == c = SliceValue /\ category = SliceValue

EmptyKV == [k \in {} |-> NilVal]
NilMap == [nil |-> TRUE, kv |-> EmptyKV]
MakeMap(kv) == [nil |-> FALSE, kv |-> kv]

Val(v) == [slice |-> FALSE, v |-> v, items |-> <<>>]
Slice(items) == [slice |-> TRUE, v |-> NilVal, items |-> items]

Range(seq) == {seq[i] : i \in 1..Len(seq)}

(***************************************************************************)
(* ctxerr.Instance and the aggregation over an error tree                  *)
(***************************************************************************)
NewInstance ==
    [CreateHooks |-> <<"SetCodeHook", "SetLocationHook">>,
     HandleHooks |-> <<>>,
     FieldHooks |-> <<>>,
     GetFieldsFuncs |-> <<"DefaultFieldsFunc">>,
     FieldsAsSlice |-> <<FieldKeyLocation>>]

\* DefaultFieldsFunc: the map of the error's Fields() method, nil when the
\* error has no such method.
DefaultFieldsFunc(err) == fields[err]

\* The extractor TestAddFieldsFuncs registers: the map of the error's
\* FieldsMap() method, nil when the error has no such method.
FieldsMapFunc(err) == fieldsMap[err]

ApplyFieldsFunc(fn, err) ==
    IF fn = "DefaultFieldsFunc" THEN DefaultFieldsFunc(err)
    ELSE IF fn = "FieldsMapFunc" THEN FieldsMapFunc(err)
    ELSE NilMap

\* A variant of FieldFuncs without the default extractor to fall back on.
FieldFuncsNoFallback(inst) == inst.GetFieldsFuncs

\* The extractor list one call works with: a copy of in.GetFieldsFuncs, or
\* the default extractor alone when that list is empty.
FieldFuncs(inst) ==
    IF Len(inst.GetFieldsFuncs) = 0
    THEN <<"DefaultFieldsFunc">>
    ELSE inst.GetFieldsFuncs

\* A variant of NodeFields in which a key keeps the value of the first
\* extractor that returns it.
RECURSIVE NodeFieldsKeepFirst(_, _, _)
NodeFieldsKeepFirst(fieldFuncs, err, acc) ==
    IF fieldFuncs = <<>>
    THEN acc
    ELSE LET m == ApplyFieldsFunc(Head(fieldFuncs), err).kv
         IN  NodeFieldsKeepFirst(Tail(fieldFuncs), err,
                 [k \in DOMAIN acc \cup DOMAIN m |->
                     IF k \in DOMAIN acc THEN acc[k] ELSE m[k]])

\* The per-node field set: every extractor in order, a later one's keys
\* overwriting an earlier one's.
RECURSIVE NodeFields(_, _, _)
NodeFields(fieldFuncs, err, acc) ==
    IF fieldFuncs = <<>>
    THEN acc
    ELSE LET m == ApplyFieldsFunc(Head(fieldFuncs), err).kv
         IN  NodeFields(Tail(fieldFuncs), err,
                 [k \in DOMAIN acc \cup DOMAIN m |->
                     IF k \in DOMAIN m THEN m[k] ELSE acc[k]])

\* The elements of a value: a slice value has two, any other value is its
\* own single element.
Elements(v) == IF v = SliceValue THEN <<1, 2>> ELSE <<v>>

\* A variant of MergeFields that appends the elements of a value that is a
\* slice instead of the value.
MergeFlatten(inst, f, nf) ==
    [k \in DOMAIN f \cup DOMAIN nf |->
        IF k \notin DOMAIN nf THEN f[k]
        ELSE IF k \in Range(inst.FieldsAsSlice)
             THEN Slice((IF k \in DOMAIN f THEN f[k].items ELSE <<>>) \o Elements(nf[k]))
             ELSE Val(nf[k])]

\* Variants of MergeFields: one keeps the value a key already has, one
\* puts a new value in front of the slice.
MergeKeepFirst(inst, f, nf) ==
    [k \in DOMAIN f \cup DOMAIN nf |->
        IF k \in DOMAIN f THEN f[k] ELSE Val(nf[k])]

MergePrepend(inst, f, nf) ==
    [k \in DOMAIN f \cup DOMAIN nf |->
        IF k \notin DOMAIN nf THEN f[k]
        ELSE IF k \in Range(inst.FieldsAsSlice)
             THEN Slice(<<nf[k]>> \o (IF k \in DOMAIN f THEN f[k].items ELSE <<>>))
             ELSE Val(nf[k])]

\* AllFields, the loop labelled OUTER: a key of FieldsAsSlice is appended to
\* the slice kept under it, any other key is overwritten.
MergeFields(inst, f, nf) ==
    [k \in DOMAIN f \cup DOMAIN nf |->
        IF k \notin DOMAIN nf THEN f[k]
        ELSE IF k \in Range(inst.FieldsAsSlice)
             THEN Slice(Append(IF k \in DOMAIN f THEN f[k].items ELSE <<>>, nf[k]))
             ELSE Val(nf[k])]

\* A variant of AllFieldsLoop that returns at the first error without
\* fields.
RECURSIVE AllFieldsLoopUntilBare(_, _, _, _)
AllFieldsLoopUntilBare(inst, fieldFuncs, it, f) ==
    LET res == IterNext(it)
    IN  IF res.r = Nil \/ NodeFields(fieldFuncs, res.r, EmptyKV) = EmptyKV
        THEN MakeMap(f)
        ELSE AllFieldsLoopUntilBare(inst, fieldFuncs, res.it,
                 MergeFields(inst, f, NodeFields(fieldFuncs, res.r, EmptyKV)))

RECURSIVE AllFieldsLoop(_, _, _, _)
AllFieldsLoop(inst, fieldFuncs, it, f) ==
    LET res == IterNext(it)
    IN  IF res.r = Nil
        THEN MakeMap(f)
        ELSE AllFieldsLoop(inst, fieldFuncs, res.it,
                 MergeFields(inst, f, NodeFields(fieldFuncs, res.r, EmptyKV)))

\* A variant of AllFields that returns a nil map for a nil error.
AllFieldsNilForNil(inst, err) ==
    IF err = Nil THEN NilMap
    ELSE AllFieldsLoop(inst, FieldFuncs(inst), NewIterator(err), EmptyKV)

\* AllFields: the map is made, the extractors are copied, the tree is
\* iterated until Next returns nil.
AllFields(inst, err) ==
    AllFieldsLoop(inst, FieldFuncs(inst), NewIterator(err), EmptyKV)

RECURSIVE HasFieldLoop(_, _, _)
HasFieldLoop(fieldFuncs, it, field) ==
    LET res == IterNext(it)
    IN  IF res.r = Nil
        THEN FALSE
        ELSE IF field \in DOMAIN NodeFields(fieldFuncs, res.r, EmptyKV)
             THEN TRUE
             ELSE HasFieldLoop(fieldFuncs, res.it, field)

\* A variant of HasField that looks at the first error only.
HasFieldFirstOnly(inst, err, field) ==
    LET res == IterNext(NewIterator(err))
    IN  res.r # Nil /\ field \in DOMAIN NodeFields(FieldFuncs(inst), res.r, EmptyKV)

\* HasField: true at the first visited error whose fields hold the key.
HasField(inst, err, field) ==
    HasFieldLoop(FieldFuncs(inst), NewIterator(err), field)

\* The loop of HasCategory: how it ends, with the result true or false, or
\* in the panic of the comparison.
RECURSIVE HasCategoryLoop(_, _, _)
HasCategoryLoop(fieldFuncs, it, category) ==
    LET res == IterNext(it)
    IN  IF res.r = Nil
        THEN "false"
        ELSE LET nf == NodeFields(fieldFuncs, res.r, EmptyKV)
             IN  IF FieldKeyCategory \in DOMAIN nf
                    /\ ComparePanics(nf[FieldKeyCategory], category)
                 THEN "panic"
                 ELSE IF FieldKeyCategory \in DOMAIN nf
                         /\ nf[FieldKeyCategory] = category
                      THEN "true"
                      ELSE HasCategoryLoop(fieldFuncs, res.it, category)

\* A variant of HasCategory that tests the category AllFields reports.
HasCategoryOfAllFields(inst, err, category) ==
    LET f == AllFields(inst, err).kv
    IN  FieldKeyCategory \in DOMAIN f /\ f[FieldKeyCategory] = Val(category)

\* HasCategory: true at the first visited error whose own category equals
\* the one asked for.
HasCategory(inst, err, category) ==
    HasCategoryLoop(FieldFuncs(inst), NewIterator(err), category) = "true"

\* HasCategory does not return: the comparison panics.
HasCategoryFails(inst, err, category) ==
    HasCategoryLoop(FieldFuncs(inst), NewIterator(err), category) = "panic"

NoRet ==
    [op |-> "none", err |-> Nil, field |-> "", category |-> NilVal,
     map |-> NilMap, ok |-> FALSE, panic |-> FALSE]

\* The values of the variables a specification does not use.
IterIdle ==
    /\ made = FALSE
    /\ root = Nil
    /\ bfu = NewIterator(Nil)
    /\ r = Nil
    /\ hn = "none"
    /\ out = <<>>
    /\ nilSeen = FALSE

SharedIdle == store = <<>> /\ calls = <<>>

FlightIdle == fieldsMap = <<>>

\* The last operation: its name and arguments, the handle hooks registered
\* when it was called, and the context or error it returned.
NoLast ==
    [op |-> "none", ctx |-> 0, err |-> Nil, key |-> "", value |-> NilVal,
     set |-> EmptyKV, hooks |-> <<>>, res |-> 0]

CtxIdle == ctxs = <<>> /\ errctx = <<>> /\ hooklog = <<>> /\ last = NoLast

RestIdle == SharedIdle /\ FlightIdle /\ CtxIdle

iterVars == <<made, root, bfu, r, hn, out, nilSeen>>

(***************************************************************************)
(* The iterator driven by a caller                                         *)
(***************************************************************************)
NoFields(t) == [n \in DOMAIN t |-> NilMap]

IterInit ==
    /\ tree \in EnumTrees \cup {BreadthFirstTree}
    /\ fields = NoFields(tree)
    /\ made = FALSE
    /\ root = Nil
    /\ bfu = NewIterator(Nil)
    /\ r = Nil
    /\ hn = "none"
    /\ out = <<>>
    /\ nilSeen = FALSE
    /\ in = NewInstance
    /\ ret = NoRet
    /\ RestIdle

NewDepthFirstIterator ==
    /\ ~made
    /\ \E err \in Errors :
        /\ root' = err
        /\ bfu' = NewIterator(err)
    /\ made' = TRUE
    /\ UNCHANGED <<tree, fields, r, hn, out, nilSeen, in, ret, restVars>>

Next ==
    /\ made
    /\ LET res == IterNext(bfu)
       IN  /\ bfu' = res.it
           /\ r' = res.r
           /\ out' = IF res.r = Nil THEN out ELSE Append(out, res.r)
           /\ nilSeen' = (nilSeen \/ res.r = Nil)
    /\ hn' = "none"
    /\ UNCHANGED <<tree, fields, made, root, in, ret, restVars>>

HasNext ==
    /\ made
    /\ hn' = IF IterHasNext(bfu) THEN "true" ELSE "false"
    /\ UNCHANGED <<tree, fields, made, root, bfu, r, out, nilSeen, in, ret, restVars>>

IterStep == NewDepthFirstIterator \/ Next \/ HasNext

SpecIter == IterInit /\ [][IterStep]_vars

(***************************************************************************)
(* The aggregation called on error trees whose nodes carry fields          *)
(***************************************************************************)
\* The maps a node's Fields() may return: nil, or any non-empty map over the
\* field names; the location is the node's own, the category any value.
FieldValues(n, k) == IF k = FieldKeyLocation THEN {n} ELSE CategoryValues

NodeFieldChoices(t, n) ==
    IF t[n].kind = "join"
    THEN {NilMap}
    ELSE {NilMap} \cup
         UNION {{MakeMap(kv) :
                     kv \in {m \in [D -> CategoryValues \cup {n}] :
                                 \A k \in D : m[k] \in FieldValues(n, k)}} :
                D \in (SUBSET FieldNames) \ {{}}}

RECURSIVE FieldChoices(_, _)
FieldChoices(t, n) ==
    IF n \notin DOMAIN t
    THEN {EmptyTab}
    ELSE {(n :> c) @@ rest :
              c \in NodeFieldChoices(t, n), rest \in FieldChoices(t, n + 1)}

AggInit ==
    /\ tree \in ProperTrees \cup SmallTrees \cup {JoinedTree, NestedJoinTree}
    /\ fields \in FieldChoices(tree, 1)
    /\ made = FALSE
    /\ root = Nil
    /\ bfu = NewIterator(Nil)
    /\ r = Nil
    /\ hn = "none"
    /\ out = <<>>
    /\ nilSeen = FALSE
    /\ in = NewInstance
    /\ ret = NoRet
    /\ RestIdle

\* The errors the aggregation is called on: nil or the outermost error.
Roots == {Nil, 1}

\* The categories HasCategory is asked for.
AskedCategories == CategoryValues \cup {SliceValue}

CallAllFields ==
    /\ \E err \in Roots :
        ret' = [NoRet EXCEPT !.op = "AllFields", !.err = err,
                             !.map = AllFields(in, err)]
    /\ UNCHANGED <<tree, fields, made, root, bfu, r, hn, out, nilSeen, in, restVars>>

CallHasField ==
    /\ \E err \in Roots, field \in FieldNames :
        ret' = [NoRet EXCEPT !.op = "HasField", !.err = err, !.field = field,
                             !.ok = HasField(in, err, field)]
    /\ UNCHANGED <<tree, fields, made, root, bfu, r, hn, out, nilSeen, in, restVars>>

CallHasCategory ==
    /\ \E err \in Roots, category \in AskedCategories :
        ret' = [NoRet EXCEPT !.op = "HasCategory", !.err = err,
                             !.category = category,
                             !.ok = HasCategory(in, err, category),
                             !.panic = HasCategoryFails(in, err, category)]
    /\ UNCHANGED <<tree, fields, made, root, bfu, r, hn, out, nilSeen, in, restVars>>

AggStep == CallAllFields \/ CallHasField \/ CallHasCategory

SpecAgg == AggInit /\ [][AggStep]_vars

(***************************************************************************)
(* Aggregation over errors whose category may be of any type               *)
(***************************************************************************)
\* Fields() of an error: no such method, a category that == can compare, a
\* category that it cannot.
AnyFields(t, n) ==
    IF t[n].kind = "join" THEN {NilMap}
    ELSE {NilMap, MakeMap((FieldKeyCategory :> 1)),
          MakeMap((FieldKeyCategory :> SliceValue))}

AnyInit ==
    /\ tree \in TreesAt(1, 1, FALSE) \cup TreesAt(1, 2, FALSE)
    /\ fields \in {m \in [DOMAIN tree -> UNION {AnyFields(tree, n) : n \in DOMAIN tree}] :
                      \A n \in DOMAIN tree : m[n] \in AnyFields(tree, n)}
    /\ IterIdle
    /\ in = NewInstance
    /\ ret = NoRet
    /\ RestIdle

SpecAny == AnyInit /\ [][AggStep]_vars

(***************************************************************************)
(* Two traversals side by side over errors that share a joined error       *)
(***************************************************************************)
\* Two errors.Join lists that share their middle entry, a joined error of
\* three (such as fmt.Errorf with three %w verbs):
\*   1 = Join(a=3, J=4, p=8)    2 = Join(a=3, J=4, q=9)    J = [x=5, y=6, z=7]
SharedTree ==
    (1 :> Joined(<<3, 4, 8>>)) @@ (2 :> Joined(<<3, 4, 9>>)) @@ (3 :> Plain) @@
    (4 :> Joined(<<5, 6, 7>>)) @@ (5 :> Plain) @@ (6 :> Plain) @@ (7 :> Plain) @@
    (8 :> Plain) @@ (9 :> Plain)

\* errors.Join makes its array as long as its list; the array of the shared
\* joined error is as long as its list or, grown by append, one longer.
SharedCaps ==
    {(1 :> Len(SharedTree[1].errs)) @@ (2 :> Len(SharedTree[2].errs)) @@ (4 :> c) :
         c \in {Len(SharedTree[4].errs), Len(SharedTree[4].errs) + 1}}

\* Every plain error carries its location; p and q carry a category too.
SharedFields ==
    [n \in DOMAIN SharedTree |->
        IF SharedTree[n].kind = "join" THEN NilMap
        ELSE IF n = 8 THEN MakeMap((FieldKeyLocation :> n) @@ (FieldKeyCategory :> 1))
        ELSE IF n = 9 THEN MakeMap((FieldKeyLocation :> n) @@ (FieldKeyCategory :> 2))
        ELSE MakeMap((FieldKeyLocation :> n))]

CallIds == {1, 2}

\* The outermost errors: those no other error wraps or lists.
TopErrors ==
    {n \in DOMAIN tree :
        \A m \in DOMAIN tree : tree[m].wrapped # n /\ n \notin Range(tree[m].errs)}

\* A traversal: the operation, its arguments, its copy of the Instance (the
\* receiver is passed by value) and of the extractors, its iterator, the
\* errors Next returned to it, the map gathered so far, and whether it has
\* returned (with ok for the boolean operations); midflight tells that an
\* extractor was registered between its start and its return.
NoCall ==
    [op |-> "none", err |-> Nil, field |-> "", category |-> NilVal,
     in |-> NewInstance, fieldFuncs |-> <<>>, it |-> SharedNewIterator(Nil),
     out |-> <<>>, f |-> EmptyKV, done |-> FALSE, ok |-> FALSE,
     midflight |-> FALSE]

\* A variant of CallFieldFuncs that reads the Instance's list again.
LiveFieldFuncs(call, inst) == FieldFuncs(inst)

\* The extractors the loop of a call ranges over: the copy made at its start.
CallFieldFuncs(call, inst) == call.fieldFuncs

SharedInit ==
    /\ tree = SharedTree
    /\ fields = SharedFields
    /\ IterIdle
    /\ in = NewInstance
    /\ ret = NoRet
    /\ store \in {NewStore(SharedTree, caps) : caps \in SharedCaps}
    /\ calls = [c \in CallIds |-> NoCall]
    /\ fieldsMap = NoFields(SharedTree)
    /\ CtxIdle

\* A caller makes an iterator of its own.
BeginIterate ==
    /\ \E c \in DOMAIN calls, err \in TopErrors :
        /\ calls[c].op = "none"
        /\ calls' = [calls EXCEPT ![c] =
               [NoCall EXCEPT !.op = "Iterate", !.err = err,
                              !.it = SharedNewIterator(err)]]
    /\ UNCHANGED <<tree, fields, iterVars, in, ret, store, fieldsMap, ctxVars>>

\* AllFields, HasField, HasCategory up to their loop: the extractors are
\* copied and the iterator is made.
BeginAllFields ==
    /\ \E c \in DOMAIN calls, err \in TopErrors :
        /\ calls[c].op = "none"
        /\ calls' = [calls EXCEPT ![c] =
               [NoCall EXCEPT !.op = "AllFields", !.err = err,
                              !.in = in,
                              !.fieldFuncs = FieldFuncs(in),
                              !.it = SharedNewIterator(err)]]
    /\ UNCHANGED <<tree, fields, iterVars, in, ret, store, fieldsMap, ctxVars>>

BeginHasField ==
    /\ \E c \in DOMAIN calls, err \in TopErrors, field \in FieldNames :
        /\ calls[c].op = "none"
        /\ calls' = [calls EXCEPT ![c] =
               [NoCall EXCEPT !.op = "HasField", !.err = err, !.field = field,
                              !.in = in,
                              !.fieldFuncs = FieldFuncs(in),
                              !.it = SharedNewIterator(err)]]
    /\ UNCHANGED <<tree, fields, iterVars, in, ret, store, fieldsMap, ctxVars>>

BeginHasCategory ==
    /\ \E c \in DOMAIN calls, err \in TopErrors, category \in CategoryValues :
        /\ calls[c].op = "none"
        /\ calls' = [calls EXCEPT ![c] =
               [NoCall EXCEPT !.op = "HasCategory", !.err = err,
                              !.category = category,
                              !.in = in,
                              !.fieldFuncs = FieldFuncs(in),
                              !.it = SharedNewIterator(err)]]
    /\ UNCHANGED <<tree, fields, iterVars, in, ret, store, fieldsMap, ctxVars>>

\* One Next call of a caller's iterator.
StepIterate ==
    /\ \E c \in DOMAIN calls :
        /\ calls[c].op = "Iterate" /\ ~calls[c].done
        /\ LET res == SharedNext(store, calls[c].it)
           IN  /\ store' = res.st
               /\ calls' = [calls EXCEPT ![c].it = res.it,
                               ![c].out = IF res.r = Nil THEN @ ELSE Append(@, res.r),
                               ![c].done = (res.r = Nil)]
    /\ UNCHANGED <<tree, fields, iterVars, in, ret, fieldsMap, ctxVars>>

\* One round of the loop of AllFields.
StepAllFields ==
    /\ \E c \in DOMAIN calls :
        /\ calls[c].op = "AllFields" /\ ~calls[c].done
        /\ LET res == SharedNext(store, calls[c].it)
           IN  /\ store' = res.st
               /\ calls' = [calls EXCEPT ![c].it = res.it,
                               ![c].out = IF res.r = Nil THEN @ ELSE Append(@, res.r),
                               ![c].f = IF res.r = Nil THEN @
                                        ELSE MergeFields(calls[c].in, @,
                                                 NodeFields(CallFieldFuncs(calls[c], in),
                                                            res.r, EmptyKV)),
                               ![c].done = (res.r = Nil)]
    /\ UNCHANGED <<tree, fields, iterVars, in, ret, fieldsMap, ctxVars>>

\* A variant of StepHasField that goes on to the end of the traversal after
\* the field was found.
StepHasFieldToEnd ==
    /\ \E c \in DOMAIN calls :
        /\ calls[c].op = "HasField" /\ ~calls[c].done
        /\ LET res == SharedNext(store, calls[c].it)
               found == res.r # Nil /\
                        calls[c].field \in
                            DOMAIN NodeFields(CallFieldFuncs(calls[c], in), res.r, EmptyKV)
           IN  /\ store' = res.st
               /\ calls' = [calls EXCEPT ![c].it = res.it,
                               ![c].out = IF res.r = Nil THEN @ ELSE Append(@, res.r),
                               ![c].ok = (@ \/ found),
                               ![c].done = (res.r = Nil)]
    /\ UNCHANGED <<tree, fields, iterVars, in, ret, fieldsMap, ctxVars>>

\* One round of the loop of HasField.
StepHasField ==
    /\ \E c \in DOMAIN calls :
        /\ calls[c].op = "HasField" /\ ~calls[c].done
        /\ LET res == SharedNext(store, calls[c].it)
               found == res.r # Nil /\
                        calls[c].field \in
                            DOMAIN NodeFields(CallFieldFuncs(calls[c], in), res.r, EmptyKV)
           IN  /\ store' = res.st
               /\ calls' = [calls EXCEPT ![c].it = res.it,
                               ![c].out = IF res.r = Nil THEN @ ELSE Append(@, res.r),
                               ![c].ok = found,
                               ![c].done = (res.r = Nil \/ found)]
    /\ UNCHANGED <<tree, fields, iterVars, in, ret, fieldsMap, ctxVars>>

\* One round of the loop of HasCategory.
\* A variant of StepHasCategory that compares fields[FieldKeyCategory]
\* without the ok of the lookup: a missing key reads as nil.
StepHasCategoryNoOk ==
    /\ \E c \in DOMAIN calls :
        /\ calls[c].op = "HasCategory" /\ ~calls[c].done
        /\ LET res == SharedNext(store, calls[c].it)
               nf == NodeFields(CallFieldFuncs(calls[c], in), res.r, EmptyKV)
               found == /\ res.r # Nil
                        /\ (IF FieldKeyCategory \in DOMAIN nf
                            THEN nf[FieldKeyCategory] ELSE NilVal) = calls[c].category
           IN  /\ store' = res.st
               /\ calls' = [calls EXCEPT ![c].it = res.it,
                               ![c].out = IF res.r = Nil THEN @ ELSE Append(@, res.r),
                               ![c].ok = found,
                               ![c].done = (res.r = Nil \/ found)]
    /\ UNCHANGED <<tree, fields, iterVars, in, ret, fieldsMap, ctxVars>>

StepHasCategory ==
    /\ \E c \in DOMAIN calls :
        /\ calls[c].op = "HasCategory" /\ ~calls[c].done
        /\ LET res == SharedNext(store, calls[c].it)
               nf == NodeFields(CallFieldFuncs(calls[c], in), res.r, EmptyKV)
               found == /\ res.r # Nil
                        /\ FieldKeyCategory \in DOMAIN nf
                        /\ nf[FieldKeyCategory] = calls[c].category
           IN  /\ store' = res.st
               /\ calls' = [calls EXCEPT ![c].it = res.it,
                               ![c].out = IF res.r = Nil THEN @ ELSE Append(@, res.r),
                               ![c].ok = found,
                               ![c].done = (res.r = Nil \/ found)]
    /\ UNCHANGED <<tree, fields, iterVars, in, ret, fieldsMap, ctxVars>>

SharedStep ==
    \/ BeginIterate \/ BeginAllFields \/ BeginHasField \/ BeginHasCategory
    \/ StepIterate \/ StepAllFields \/ StepHasField \/ StepHasCategory

SpecShared == SharedInit /\ [][SharedStep]_vars

(***************************************************************************)
(* One call in progress while extractors are registered                    *)
(***************************************************************************)
ExtractorNames == {"DefaultFieldsFunc", "FieldsMapFunc"}

\* One error, or one error wrapping or listing a second.
FlightTrees == TreesAt(1, 1, FALSE) \cup TreesAt(1, 2, FALSE)

\* Fields() of an error: no such method, a category, the location, or a
\* location that is itself a slice.
\* FieldsMap(): no such method, an empty map, another category or location.
FlightFields(t, n) ==
    IF t[n].kind = "join" THEN {NilMap}
    ELSE {NilMap, MakeMap((FieldKeyCategory :> 1)), MakeMap((FieldKeyLocation :> n)),
          MakeMap((FieldKeyLocation :> SliceValue))}

FlightFieldsMaps(t, n) ==
    IF t[n].kind = "join" THEN {NilMap}
    ELSE {NilMap, MakeMap(EmptyKV), MakeMap((FieldKeyCategory :> 2)),
          MakeMap((FieldKeyLocation :> 0 - (n + 1)))}

PerNodeFields(t) ==
    {m \in [DOMAIN t -> UNION {FlightFields(t, n) : n \in DOMAIN t}] :
        \A n \in DOMAIN t : m[n] \in FlightFields(t, n)}

PerNodeFieldsMaps(t) ==
    {m \in [DOMAIN t -> UNION {FlightFieldsMaps(t, n) : n \in DOMAIN t}] :
        \A n \in DOMAIN t : m[n] \in FlightFieldsMaps(t, n)}

\* Arrays exactly as long as the lists, as errors.Join makes them.
ExactCaps(t) ==
    [j \in {n \in DOMAIN t : t[n].kind = "join"} |-> Len(t[j].errs)]

\* NewInstance(), or the same with in.GetFieldsFuncs = nil.
FlightInstances == {NewInstance, [NewInstance EXCEPT !.GetFieldsFuncs = <<>>]}

FlightInit ==
    /\ tree \in FlightTrees
    /\ fields \in PerNodeFields(tree)
    /\ fieldsMap \in PerNodeFieldsMaps(tree)
    /\ IterIdle
    /\ in \in FlightInstances
    /\ ret = NoRet
    /\ store = NewStore(tree, ExactCaps(tree))
    /\ calls = [c \in {1} |-> NoCall]
    /\ CtxIdle

\* AddFieldsFunc: the extractor is appended to in.GetFieldsFuncs (here: one
\* not registered yet).
AddFieldsFunc ==
    /\ \E fn \in ExtractorNames :
        /\ fn \notin Range(in.GetFieldsFuncs)
        /\ in' = [in EXCEPT !.GetFieldsFuncs = Append(@, fn)]
    /\ calls' = [c \in DOMAIN calls |->
                    IF calls[c].op # "none" /\ ~calls[c].done
                    THEN [calls[c] EXCEPT !.midflight = TRUE]
                    ELSE calls[c]]
    /\ UNCHANGED <<tree, fields, iterVars, ret, store, fieldsMap, ctxVars>>

FlightStep ==
    \/ BeginAllFields \/ BeginHasField \/ BeginHasCategory
    \/ StepAllFields \/ StepHasField \/ StepHasCategory
    \/ AddFieldsFunc

SpecFlight == FlightInit /\ [][FlightStep]_vars

(***************************************************************************)
(* Handle and the handle hooks                                             *)
(***************************************************************************)
\* The hooks of the package documentation: a hook of the caller and the
\* default log hook registered as a handle hook.
HandleHookNames == {"metricOnError", "DefaultLogHook"}

\* What a hook run leaves behind: the hook, the error it was given and, for
\* the default log hook, the fields it logs.
HookRun(hook, inst, err) ==
    [hook |-> hook, err |-> err,
     logged |-> IF hook = "DefaultLogHook" THEN AllFields(inst, err) ELSE NilMap]

\* A variant of HandleRuns that logs with the default log hook after the
\* registered hooks as well.
HandleRunsThenLogs(inst, err) ==
    IF err = Nil THEN <<>>
    ELSE [i \in 1..Len(inst.HandleHooks) |-> HookRun(inst.HandleHooks[i], inst, err)]
             \o <<HookRun("DefaultLogHook", inst, err)>>

\* Handle: nothing for a nil error, the default log hook when no handle hook
\* is registered, otherwise the registered hooks in order.
HandleRuns(inst, err) ==
    IF err = Nil THEN <<>>
    ELSE IF Len(inst.HandleHooks) = 0
         THEN <<HookRun("DefaultLogHook", inst, err)>>
         ELSE [i \in 1..Len(inst.HandleHooks) |-> HookRun(inst.HandleHooks[i], inst, err)]

HandleInit ==
    /\ tree \in FlightTrees \cup {JoinedTree}
    /\ fields \in PerNodeFields(tree)
    /\ fieldsMap = NoFields(tree)
    /\ IterIdle
    /\ in = NewInstance
    /\ ret = NoRet
    /\ SharedIdle
    /\ CtxIdle

\* AddHandleHook (here: of a hook not registered yet).
AddHandleHook ==
    /\ \E hook \in HandleHookNames :
        /\ hook \notin Range(in.HandleHooks)
        /\ in' = [in EXCEPT !.HandleHooks = Append(@, hook)]
    /\ UNCHANGED <<tree, fields, iterVars, ret, store, calls, fieldsMap, ctxVars>>

Handle ==
    /\ \E err \in TopErrors \cup {Nil} :
        /\ hooklog' = HandleRuns(in, err)
        /\ last' = [NoLast EXCEPT !.op = "Handle", !.err = err,
                                  !.hooks = in.HandleHooks]
    /\ UNCHANGED <<tree, fields, iterVars, in, ret, store, calls, fieldsMap,
                   ctxs, errctx>>

HandleStep == AddHandleHook \/ Handle

SpecHandle == HandleInit /\ [][HandleStep]_vars

(***************************************************************************)
(* Contexts, their fields, and the errors created from them                *)
(***************************************************************************)
FieldKeyCode == "error_code"
FieldKeyStatusCode == "error_status_code"
FieldKeyAction == "error_action"

Background == 0          \* context.Background(): no map under FieldsKey
EmptyCode == 0           \* the code "", the action "" and the status code 0

Redactable == 2          \* a value with a Redact() method
Redacted == 3            \* what Redact() returns
\* The codes an error is made with: none, or one of its own ("FieldKeyCode
\* should be unique to the error").
Codes(t) == {EmptyCode, 0 - (Len(t) + 1)}

\* Fields(ctx): the map kept under FieldsKey, nil when there is none.
CtxFields(heap, ctx) == IF ctx = Background THEN NilMap ELSE MakeMap(heap[ctx])

\* RedactItem of TestFieldHook, the field hook that can be registered.
RedactItem(a) == IF a = Redactable THEN Redacted ELSE a

RECURSIVE RunFieldHooks(_, _)
RunFieldHooks(hooks, value) ==
    IF hooks = <<>> THEN value
    ELSE RunFieldHooks(Tail(hooks),
             IF Head(hooks) = "RedactItem" THEN RedactItem(value) ELSE value)

\* A context inside one operation: the caller's context as it is, or one
\* derived from it by context.WithValue with the new map kv.
Held(ctx) == [fresh |-> FALSE, id |-> ctx, kv |-> EmptyKV]
CvFields(heap, cv) == IF cv.fresh THEN MakeMap(cv.kv) ELSE CtxFields(heap, cv.id)

Overlay(kv, over) ==
    [k \in DOMAIN kv \cup DOMAIN over |-> IF k \in DOMAIN over THEN over[k] ELSE kv[k]]

\* SetField: the hooks are run on the value, the fields of the context are
\* copied into a new map, the key is set in it.
WithField(inst, heap, cv, key, value) ==
    [fresh |-> TRUE, id |-> cv.id,
     kv |-> Overlay(CvFields(heap, cv).kv,
                    (key :> RunFieldHooks(inst.FieldHooks, value)))]

\* SetFields: the same with every key of the given map.
WithFieldSet(inst, heap, cv, set) ==
    [fresh |-> TRUE, id |-> cv.id,
     kv |-> Overlay(CvFields(heap, cv).kv,
                    [k \in DOMAIN set |-> RunFieldHooks(inst.FieldHooks, set[k])])]

\* A variant of StoreFields that writes the new fields into the map of the
\* context they were derived from.
StoreFieldsInPlace(heap, cv) ==
    IF cv.fresh /\ cv.id # Background
    THEN [ctxs |-> [heap EXCEPT ![cv.id] = cv.kv], id |-> cv.id]
    ELSE IF cv.fresh
         THEN [ctxs |-> Append(heap, cv.kv), id |-> Len(heap) + 1]
         ELSE [ctxs |-> heap, id |-> cv.id]

\* The context an operation ends with: the caller's own, or a new one with
\* the new map (contexts made on the way and dropped are left out).
StoreFields(heap, cv) ==
    IF cv.fresh
    THEN [ctxs |-> Append(heap, cv.kv), id |-> Len(heap) + 1]
    ELSE [ctxs |-> heap, id |-> cv.id]

\* A variant of SetCodeHook that sets the code also when it is empty.
SetCodeHookAlways(inst, heap, cv, code) ==
    WithField(inst, heap, cv, FieldKeyCode, code)

\* The create hooks of NewInstance: the code, when not empty, and the
\* location (here: the error being created) are set on the context.
SetCodeHook(inst, heap, cv, code) ==
    IF code # EmptyCode THEN WithField(inst, heap, cv, FieldKeyCode, code) ELSE cv

SetLocationHook(inst, heap, cv, loc) ==
    WithField(inst, heap, cv, FieldKeyLocation, loc)

RECURSIVE RunCreateHooks(_, _, _, _, _, _)
RunCreateHooks(hooks, inst, heap, cv, code, loc) ==
    IF hooks = <<>> THEN cv
    ELSE RunCreateHooks(Tail(hooks), inst, heap,
             IF Head(hooks) = "SetCodeHook" THEN SetCodeHook(inst, heap, cv, code)
             ELSE IF Head(hooks) = "SetLocationHook"
                  THEN SetLocationHook(inst, heap, cv, loc)
                  ELSE cv,
             code, loc)

CreateHookRuns(inst, wrapping) ==
    [i \in 1..Len(inst.CreateHooks) |->
        [hook |-> inst.CreateHooks[i], err |-> wrapping, logged |-> NilMap]]

\* impl.Fields() of every error: the fields of the context it keeps.
ImplFields(heap, ectx, t) ==
    [n \in DOMAIN t |-> IF n \in DOMAIN ectx THEN CtxFields(heap, ectx[n]) ELSE NilMap]

\* The state an error-creating operation leaves: the create hooks are run
\* on the context, the impl keeps the context they return.
Created(inst, heap, ectx, t, cv, wrapped, code) ==
    LET id == Len(t) + 1
        st == StoreFields(heap, RunCreateHooks(inst.CreateHooks, inst, heap, cv, code, id))
    IN  [ctxs |-> st.ctxs,
         tree |-> t @@ (id :> Wrapping(wrapped)),
         errctx |-> ectx @@ (id :> st.id),
         runs |-> CreateHookRuns(inst, wrapped),
         res |-> id]

\* A variant of Wrapped that runs the create hooks before it looks at the
\* error.
WrappedHooksFirst(inst, heap, ectx, t, cv, err, code) ==
    IF err = Nil
    THEN [ctxs |-> heap, tree |-> t, errctx |-> ectx,
          runs |-> CreateHookRuns(inst, err), res |-> Nil]
    ELSE Created(inst, heap, ectx, t, cv, err, code)

\* Wrap and Wrapf: nil for a nil error, before anything else.
Wrapped(inst, heap, ectx, t, cv, err, code) ==
    IF err = Nil
    THEN [ctxs |-> heap, tree |-> t, errctx |-> ectx, runs |-> <<>>, res |-> Nil]
    ELSE Created(inst, heap, ectx, t, cv, err, code)

\* WrapHTTP and WrapHTTPf: the action and the status code, when not empty,
\* are set on the context first.
WithHTTP(inst, heap, cv, action, statusCode) ==
    LET a == IF action # EmptyCode
             THEN WithField(inst, heap, cv, FieldKeyAction, action) ELSE cv
    IN  IF statusCode # EmptyCode
        THEN WithField(inst, heap, a, FieldKeyStatusCode, statusCode) ELSE a

\* The keys the create hooks and the HTTP functions set.
CreationKeys == {FieldKeyCode, FieldKeyLocation, FieldKeyAction, FieldKeyStatusCode}

\* The contexts a caller holds: the background and what SetField and
\* SetFields returned (the context a create hook or an HTTP function makes
\* stays in the impl).
Contexts ==
    {Background} \cup {m \in DOMAIN ctxs : DOMAIN ctxs[m] \cap CreationKeys = {}}

\* How many contexts and errors were made.
Objects(heap, ectx) == Len(heap) + Cardinality(DOMAIN ectx)

\* The errors this package made.
Impls == DOMAIN errctx

\* The errors a caller wraps: none, or the error made last.
WrapTargets == {Nil, Len(tree)}

\* The code, action and status code the HTTP functions are called with.
HTTPArgs == {<<EmptyCode, EmptyCode, EmptyCode>>, <<1, 1, 1>>}

\* The zero Instance of TestFieldHook.
ZeroInstance ==
    [CreateHooks |-> <<>>, HandleHooks |-> <<>>, FieldHooks |-> <<>>,
     GetFieldsFuncs |-> <<>>, FieldsAsSlice |-> <<>>]

\* One error not made by this package, fmt.Errorf("e"), is there to wrap.
CtxInit ==
    /\ tree = (1 :> Plain)
    /\ fields = (1 :> NilMap)
    /\ IterIdle
    /\ in \in {NewInstance, ZeroInstance}
    /\ ret = NoRet
    /\ SharedIdle
    /\ FlightIdle
    /\ ctxs = <<>>
    /\ errctx = [n \in {} |-> Background]
    /\ hooklog = <<>>
    /\ last = NoLast

\* AddFieldHook (here: of RedactItem, once).
AddFieldHook ==
    /\ "RedactItem" \notin Range(in.FieldHooks)
    /\ in' = [in EXCEPT !.FieldHooks = Append(@, "RedactItem")]
    /\ UNCHANGED <<tree, fields, iterVars, ret, store, calls, fieldsMap, ctxVars>>

\* The keys and values SetField is called with.
SetFieldArgs == {<<"key", 1>>, <<"key", Redactable>>}

\* The map SetFields is called with.
SetFieldsArgs == {("key" :> Redactable) @@ (FieldKeyCategory :> 1)}

\* The state an operation that returns the context cv leaves.
Returns(op, ctx, cv) ==
    LET st == StoreFields(ctxs, cv)
    IN  /\ Objects(st.ctxs, errctx) <= MaxObjects
        /\ ctxs' = st.ctxs
        /\ last' = [NoLast EXCEPT !.op = op, !.ctx = ctx, !.res = st.id]
        /\ fields' = ImplFields(st.ctxs, errctx, tree)
        /\ hooklog' = <<>>
        /\ UNCHANGED <<tree, iterVars, in, ret, store, calls, fieldsMap, errctx>>

SetFieldOf(ctx, key, value) ==
    Returns("SetField", ctx, WithField(in, ctxs, Held(ctx), key, value))

SetFieldsOf(ctx, set) ==
    Returns("SetFields", ctx, WithFieldSet(in, ctxs, Held(ctx), set))

SetField == \E ctx \in Contexts, kv \in SetFieldArgs : SetFieldOf(ctx, kv[1], kv[2])

SetFields == \E ctx \in Contexts, set \in SetFieldsArgs : SetFieldsOf(ctx, set)

\* The operation op ends in the state c.
Creates(op, err, c) ==
    /\ Objects(c.ctxs, c.errctx) <= MaxObjects
    /\ ctxs' = c.ctxs
    /\ tree' = c.tree
    /\ errctx' = c.errctx
    /\ fields' = ImplFields(c.ctxs, c.errctx, c.tree)
    /\ hooklog' = c.runs
    /\ last' = [NoLast EXCEPT !.op = op, !.err = err, !.res = c.res]
    /\ UNCHANGED <<iterVars, in, ret, store, calls, fieldsMap>>

NewOf(ctx, code) ==
    Creates("New", Nil, Created(in, ctxs, errctx, tree, Held(ctx), Nil, code))

NewfOf(ctx, code) ==
    Creates("Newf", Nil, Created(in, ctxs, errctx, tree, Held(ctx), Nil, code))

WrapOf(ctx, err, code) ==
    Creates("Wrap", err, Wrapped(in, ctxs, errctx, tree, Held(ctx), err, code))

WrapfOf(ctx, err, code) ==
    Creates("Wrapf", err, Wrapped(in, ctxs, errctx, tree, Held(ctx), err, code))

\* QuickWrap: Wrap with the code "".
QuickWrapOf(ctx, err) ==
    Creates("QuickWrap", err,
            Wrapped(in, ctxs, errctx, tree, Held(ctx), err, EmptyCode))

New == \E ctx \in Contexts, code \in Codes(tree) : NewOf(ctx, code)

Newf == \E ctx \in Contexts, code \in Codes(tree) : NewfOf(ctx, code)

Wrap ==
    \E ctx \in Contexts, err \in WrapTargets, code \in Codes(tree) : WrapOf(ctx, err, code)

Wrapf ==
    \E ctx \in Contexts, err \in WrapTargets, code \in Codes(tree) : WrapfOf(ctx, err, code)

QuickWrap == \E ctx \in Contexts, err \in WrapTargets : QuickWrapOf(ctx, err)

WrapHTTP ==
    \E ctx \in Contexts, err \in WrapTargets, a \in HTTPArgs :
        Creates("WrapHTTP", err,
                Wrapped(in, ctxs, errctx, tree,
                        WithHTTP(in, ctxs, Held(ctx), a[2], a[3]), err, a[1]))

WrapHTTPf ==
    \E ctx \in Contexts, err \in WrapTargets, a \in HTTPArgs :
        Creates("WrapHTTPf", err,
                Wrapped(in, ctxs, errctx, tree,
                        WithHTTP(in, ctxs, Held(ctx), a[2], a[3]), err, a[1]))

CtxStep ==
    \/ AddFieldHook \/ SetField \/ SetFields
    \/ New \/ Newf \/ Wrap \/ Wrapf \/ QuickWrap \/ WrapHTTP \/ WrapHTTPf

SpecCtx == CtxInit /\ [][CtxStep]_vars

(***************************************************************************)
(* Errors made with codes, and the fields reported for them                *)
(***************************************************************************)
CreateHookNames == {"SetCodeHook", "SetLocationHook"}

\* AddCreateHook (here: of a hook of the package, once).
AddCreateHook ==
    /\ \E hook \in CreateHookNames \ Range(in.CreateHooks) :
        in' = [in EXCEPT !.CreateHooks = Append(@, hook)]
    /\ UNCHANGED <<tree, fields, iterVars, ret, store, calls, fieldsMap, ctxVars>>

\* AllFields called on an error this package made.
CallAllFieldsOfCreated ==
    /\ \E err \in Impls :
        ret' = [NoRet EXCEPT !.op = "AllFields", !.err = err,
                             !.map = AllFields(in, err)]
    /\ UNCHANGED <<tree, fields, iterVars, in, restVars>>

CodeStep ==
    \/ AddCreateHook \/ New \/ Newf \/ Wrap \/ Wrapf \/ QuickWrap
    \/ CallAllFieldsOfCreated

SpecCode == CtxInit /\ [][CodeStep]_vars

(***************************************************************************)
(* A caller that keeps the maps AllFields returned and changes them, the   *)
(* way the HTTP response builder deletes the keys it has reported.  A Go   *)
(* map is a reference: `owner` is the error whose Fields() map a returned  *)
(* map is, Nil for a map no error holds.  `calls` lists what was returned: *)
(* f as it was at the return, held as the caller has it now.               *)
(***************************************************************************)
\* A variant of ResultOwner that hands out the Fields() map of an error
\* that wraps and lists nothing.
ResultOwnerLone(inst, err) ==
    IF err # Nil /\ tree[err].kind = "plain" /\ ~fields[err].nil THEN err ELSE Nil

\* f := map[string]any{}: the map AllFields fills and returns is a new one.
ResultOwner(inst, err) == Nil

ReturnedMap(err, f, owner, late) ==
    [op |-> "AllFields", err |-> err, f |-> f, held |-> f, owner |-> owner,
     late |-> late]

FreshInit ==
    /\ tree \in FlightTrees
    /\ fields \in PerNodeFields(tree)
    /\ IterIdle
    /\ in = NewInstance
    /\ ret = NoRet
    /\ RestIdle

\* One more AllFields call; late tells whether a map returned earlier had
\* been changed by then.
CallAllFieldsAgain ==
    /\ Len(calls) < MaxCalls
    /\ \E err \in Roots :
        LET f == AllFields(in, err)
        IN  /\ ret' = [NoRet EXCEPT !.op = "AllFields", !.err = err, !.map = f]
            /\ calls' = Append(calls,
                   ReturnedMap(err, f, ResultOwner(in, err),
                               \E c \in DOMAIN calls : calls[c].held # calls[c].f))
    /\ UNCHANGED <<tree, fields, iterVars, in, store, fieldsMap, ctxVars>>

Without(kv, k) == [x \in DOMAIN kv \ {k} |-> kv[x]]

\* delete(fields, k) or fields[k] = nil on a map AllFields returned; the
\* error that holds the same map sees the change.
ChangeReturned ==
    /\ \E c \in DOMAIN calls : \E k \in DOMAIN calls[c].held.kv :
        \E change \in {"delete", "replace"} :
            /\ calls' = [calls EXCEPT ![c].held =
                   MakeMap(IF change = "delete" THEN Without(@.kv, k)
                           ELSE [@.kv EXCEPT ![k] = Val(NilVal)])]
            /\ fields' = IF calls[c].owner = Nil THEN fields
                         ELSE [fields EXCEPT ![calls[c].owner] =
                                  MakeMap(IF change = "delete" THEN Without(@.kv, k)
                                          ELSE [@.kv EXCEPT ![k] = NilVal])]
    /\ UNCHANGED <<tree, iterVars, in, ret, store, fieldsMap, ctxVars>>

FreshStep == CallAllFieldsAgain \/ ChangeReturned

SpecFresh == FreshInit /\ [][FreshStep]_vars

(***************************************************************************)
(* Properties of the iterator                                              *)
(***************************************************************************)
IsPrefix(s, t) == Len(s) <= Len(t) /\ SubSeq(t, 1, Len(s)) = s

\* The pre-order, depth-first, left-to-right listing of the tree under e.
\* With joinsListed a joined error is listed as a node of its own before
\* its successors; without, only its successors' subtrees are listed (a
\* joined error without successors is a leaf and listed either way).
RECURSIVE PreOrder(_, _), PreOrderOfList(_, _)
PreOrder(e, joinsListed) ==
    IF e = Nil THEN <<>>
    ELSE IF tree[e].kind = "plain" THEN <<e>>
    ELSE IF tree[e].kind = "wrap" THEN <<e>> \o PreOrder(tree[e].wrapped, joinsListed)
    ELSE (IF joinsListed \/ tree[e].errs = <<>> THEN <<e>> ELSE <<>>)
             \o PreOrderOfList(tree[e].errs, joinsListed)
PreOrderOfList(es, joinsListed) ==
    IF es = <<>> THEN <<>>
    ELSE PreOrder(Head(es), joinsListed) \o PreOrderOfList(Tail(es), joinsListed)

\* a, b, c, d, e, f, g, h, i of TestBreadthFirst
BreadthFirstOrder == <<1, 3, 5, 6, 7, 8, 9, 11, 12>>
OnBreadthFirst == tree = BreadthFirstTree /\ made /\ root = 1

\* C1: on the tree of TestBreadthFirst an iterator created on a and driven
\* until HasNext is false has returned exactly a,b,c,d,e,f,g,h,i in that
\* order, and the Next call after that returns nil.
C1_BreadthFirstOrder ==
    OnBreadthFirst =>
        /\ IsPrefix(out, BreadthFirstOrder)
        /\ (hn = "false" => out = BreadthFirstOrder /\ IterNext(bfu).r = Nil)
        /\ (nilSeen => out = BreadthFirstOrder /\ r = Nil)

C1_Witness ==
    OnBreadthFirst /\ nilSeen /\ out = BreadthFirstOrder /\ r = Nil

\* No joined error of the tree has an empty list or a nil entry.
WellFormed ==
    \A n \in DOMAIN tree :
        tree[n].kind = "join" => (tree[n].errs # <<>> /\ Nil \notin Range(tree[n].errs))

\* C2: for every tree (here: without nil entries and empty joins), once the
\* iterator is exhausted the non-nil errors it returned are the pre-order
\* depth-first left-to-right listing of the tree (with the joined errors
\* either listed as nodes or left out).
C2_PreOrder ==
    (WellFormed /\ made /\ hn = "false") =>
        (out = PreOrder(root, FALSE) \/ out = PreOrder(root, TRUE))

\* C10: once Next has returned nil, every later Next call returns nil and
\* HasNext stays false.
C10_ExhaustionIdempotent ==
    nilSeen => (r = Nil /\ hn # "true")

\* C11: whenever HasNext has just answered, it answered true exactly when
\* the Next call that follows returns a non-nil error (HasNext itself leaves
\* the candidate and the pending errors as they are).
C11_HasNextIffNextNonNil ==
    (made /\ hn # "none") => ((hn = "true") <=> (IterNext(bfu).r # Nil))

(***************************************************************************)
(* Properties of the aggregation                                           *)
(***************************************************************************)
\* The errors one aggregation call visits, in order: what Next returns
\* until it first returns nil.
RECURSIVE VisitedLoop(_, _)
VisitedLoop(it, acc) ==
    LET res == IterNext(it)
    IN  IF res.r = Nil THEN acc ELSE VisitedLoop(res.it, Append(acc, res.r))
Visited(err) == VisitedLoop(NewIterator(err), <<>>)

\* The field set the configured extractors obtain from one node.
FieldsOf(n) == NodeFields(FieldFuncs(in), n, EmptyKV)

AsSlice(k) == k \in Range(in.FieldsAsSlice)

\* The values the nodes of vis set for key k, in the order of vis.
RECURSIVE ValuesSet(_, _)
ValuesSet(vis, k) ==
    IF vis = <<>> THEN <<>>
    ELSE (IF k \in DOMAIN FieldsOf(Head(vis)) THEN <<FieldsOf(Head(vis))[k]>> ELSE <<>>)
             \o ValuesSet(Tail(vis), k)

Last(seq) == seq[Len(seq)]

Pos(vis, n) == CHOOSE i \in 1..Len(vis) : vis[i] = n

\* A wrapping error is visited right before the error it wraps, and the
\* entries of a joined error are visited in the order they are listed in.
WrapperFirst(vis) ==
    \A i \in 1..Len(vis) :
        LET w == tree[vis[i]].wrapped
        IN  (w # Nil /\ tree[w].kind # "join") => (i < Len(vis) /\ vis[i + 1] = w)

BranchesInOrder(vis) ==
    \A j \in DOMAIN tree : \A a, b \in 1..Len(tree[j].errs) :
        LET ea == tree[j].errs[a]
            eb == tree[j].errs[b]
        IN  (a < b /\ ea \in Range(vis) /\ eb \in Range(vis)) => Pos(vis, ea) < Pos(vis, eb)

\* C3: for a key that is not gathered as a slice, AllFields returns the
\* value set by the last visited node whose fields hold the key (and no
\* entry when no visited node holds it); a wrapped node comes after its
\* wrapper and a later-listed join branch after an earlier-listed one.
C3_LastVisitedWins ==
    ret.op = "AllFields" =>
        LET vis == Visited(ret.err)
        IN  /\ WrapperFirst(vis)
            /\ BranchesInOrder(vis)
            /\ \A k \in FieldNames :
                   ~AsSlice(k) =>
                       LET vals == ValuesSet(vis, k)
                       IN  IF vals = <<>>
                           THEN k \notin DOMAIN ret.map.kv
                           ELSE /\ k \in DOMAIN ret.map.kv
                                /\ ret.map.kv[k] = Val(Last(vals))

\* c sets the category to nil, a to 1 and b to 2: AllFields(c) reports 2.
C3_Witness ==
    /\ tree = JoinedTree /\ ret.op = "AllFields" /\ ret.err = 1
    /\ ValuesSet(<<1, 3, 4>>, FieldKeyCategory) = <<NilVal, 1, 2>>
    /\ ret.map.kv[FieldKeyCategory] = Val(2)

\* R=1 wraps M=2 wraps L=3, L wraps nothing; L sets x=1 and R sets x=2,
\* x being the category key (not gathered as a slice).
ChainRML ==
    /\ DOMAIN tree = 1..3
    /\ tree[1] = Wrapping(2) /\ tree[2] = Wrapping(3) /\ tree[3] = Plain
    /\ ~fields[1].nil /\ FieldKeyCategory \in DOMAIN fields[1].kv
    /\ fields[1].kv[FieldKeyCategory] = 2
    /\ ~fields[3].nil /\ FieldKeyCategory \in DOMAIN fields[3].kv
    /\ fields[3].kv[FieldKeyCategory] = 1

AllFieldsOfChain == ChainRML /\ ret.op = "AllFields" /\ ret.err = 1

\* C4 as claimed: with R wraps M wraps L, L setting x=1 and R setting x=2,
\* AllFields(R) yields x=2.
C4_RootValueWins ==
    AllFieldsOfChain =>
        (FieldKeyCategory \in DOMAIN ret.map.kv /\ ret.map.kv[FieldKeyCategory] = Val(2))

\* C4 amended: with R wraps M wraps L (L wrapping nothing), L setting x=1
\* and R setting x=2, AllFields(R) yields x=1, the value of the node
\* visited last.
C4_LeafValueWins ==
    AllFieldsOfChain =>
        (FieldKeyCategory \in DOMAIN ret.map.kv /\ ret.map.kv[FieldKeyCategory] = Val(1))

C4_Witness ==
    AllFieldsOfChain /\ ret.map.kv[FieldKeyCategory] = Val(1)

\* C5: for a key gathered as a slice, AllFields returns the slice of the
\* values the visited nodes set, in the order they are visited (wrapper
\* first, then the wrapped nodes, join branches in listed order).
C5_SliceInVisitOrder ==
    ret.op = "AllFields" =>
        LET vis == Visited(ret.err)
        IN  /\ WrapperFirst(vis)
            /\ BranchesInOrder(vis)
            /\ \A k \in FieldNames :
                   AsSlice(k) =>
                       LET vals == ValuesSet(vis, k)
                       IN  IF vals = <<>>
                           THEN k \notin DOMAIN ret.map.kv
                           ELSE /\ k \in DOMAIN ret.map.kv
                                /\ ret.map.kv[k] = Slice(vals)

\* c, a and b of TestJoined each set their location: [c, a, b].
C5_Witness ==
    /\ tree = JoinedTree /\ ret.op = "AllFields" /\ ret.err = 1
    /\ ValuesSet(<<1, 3, 4>>, FieldKeyLocation) = <<1, 3, 4>>
    /\ ret.map.kv[FieldKeyLocation] = Slice(<<1, 3, 4>>)

\* C6: HasField(err, field) is true exactly when field is a key of the map
\* AllFields(err) returns.
C6_HasFieldIsKeyOfAllFields ==
    ret.op = "HasField" =>
        (ret.ok <=> ret.field \in DOMAIN AllFields(in, ret.err).kv)

\* The field is held by b of TestJoined only, the last node visited.
C6_Witness ==
    /\ tree = JoinedTree /\ ret.op = "HasField" /\ ret.err = 1 /\ ret.ok
    /\ ret.field \notin DOMAIN FieldsOf(1) \cup DOMAIN FieldsOf(3)
    /\ ret.field \in DOMAIN FieldsOf(4)

\* C7: HasCategory(err, v) is true exactly when some visited node's own
\* fields hold the category key with the value v.
C7_HasCategoryOfSomeNode ==
    ret.op = "HasCategory" =>
        LET vis == Visited(ret.err)
        IN  ret.ok <=> \E i \in 1..Len(vis) :
                          /\ FieldKeyCategory \in DOMAIN FieldsOf(vis[i])
                          /\ FieldsOf(vis[i])[FieldKeyCategory] = ret.category

\* The category asked for is matched although a later node overwrites it in
\* the map AllFields returns.
C7_Witness ==
    /\ ret.op = "HasCategory" /\ ret.ok /\ ret.err = 1
    /\ AllFields(in, ret.err).kv[FieldKeyCategory] # Val(ret.category)

\* C8: for a nil error AllFields returns an empty map that is not nil, and
\* HasField and HasCategory return false.
C8_NilError ==
    ret.err = Nil =>
        /\ ret.op = "AllFields" => ret.map = MakeMap(EmptyKV)
        /\ ret.op \in {"HasField", "HasCategory"} => ~ret.ok

C8_Witness ==
    ret.err = Nil /\ ret.op = "AllFields" /\ ~ret.map.nil

\* The nodes of the tree under e.
RECURSIVE Under(_)
Under(e) ==
    IF e = Nil THEN {}
    ELSE {e} \cup Under(tree[e].wrapped)
             \cup UNION {Under(tree[e].errs[i]) : i \in 1..Len(tree[e].errs)}

\* The error wraps a joined error of two branches.
WrapsJoinOfTwo(e) ==
    /\ e # Nil /\ tree[e].kind = "wrap"
    /\ tree[e].wrapped # Nil /\ tree[tree[e].wrapped].kind = "join"
    /\ Len(tree[tree[e].wrapped].errs) = 2
    /\ Nil \notin Range(tree[tree[e].wrapped].errs)

\* C9: when an error wraps a join of two branches, every key that exactly
\* one node of the wrapper and the branches sets is a key of AllFields with
\* that node's value (as the one element of a slice when the key is
\* gathered as a slice), and HasField is true for it.
C9_UnionOfBranches ==
    (ret.op = "AllFields" /\ WrapsJoinOfTwo(ret.err)) =>
        \A n \in Under(ret.err) : \A k \in DOMAIN FieldsOf(n) :
            (\A m \in Under(ret.err) \ {n} : k \notin DOMAIN FieldsOf(m)) =>
                /\ k \in DOMAIN ret.map.kv
                /\ ret.map.kv[k] = IF AsSlice(k) THEN Slice(<<FieldsOf(n)[k]>>)
                                                ELSE Val(FieldsOf(n)[k])
                /\ HasField(in, ret.err, k)

(***************************************************************************)
(* Properties of traversals side by side                                   *)
(***************************************************************************)
\* C12: a traversal that has returned, whatever the other traversal did in
\* between, was handed the errors it is handed when run alone, and
\* AllFields, HasField and HasCategory return what they return when called
\* alone.
C12_InterleavingIndependent ==
    \A c \in DOMAIN calls :
        calls[c].done =>
            /\ calls[c].op \in {"Iterate", "AllFields"} =>
                   calls[c].out = Visited(calls[c].err)
            /\ calls[c].op = "AllFields" =>
                   calls[c].f = AllFields(in, calls[c].err).kv
            /\ calls[c].op = "HasField" =>
                   calls[c].ok = HasField(in, calls[c].err, calls[c].field)
            /\ calls[c].op = "HasCategory" =>
                   calls[c].ok = HasCategory(in, calls[c].err, calls[c].category)

\* C13: the array behind every joined error's list holds what it held when
\* the error was built (the list, then unused room), and every error's
\* fields and successors are as they were.
C13_TreeUnchanged ==
    \A j \in DOMAIN store :
        \A i \in 1..Len(store[j]) :
            store[j][i] = IF i <= Len(tree[j].errs) THEN tree[j].errs[i] ELSE Nil

(***************************************************************************)
(* Properties of the configuration of a call                               *)
(***************************************************************************)
\* The map gathered from the errors of vis, in order, under the Instance
\* inst with its own extractor list.
RECURSIVE MergeAll(_, _, _)
MergeAll(inst, vis, f) ==
    IF vis = <<>> THEN f
    ELSE MergeAll(inst, Tail(vis),
             MergeFields(inst, f, NodeFields(FieldFuncs(inst), Head(vis), EmptyKV)))

Started(c) == calls[c].op # "none"
Returned(c) == calls[c].op # "none" /\ calls[c].done

\* C14: a call works throughout with the extractors and the slice keys of
\* the Instance as it was when the call started: what AllFields has gathered
\* after any number of errors is what that Instance gathers from them, and
\* the call returns what a call on that Instance returns, whatever is
\* registered with AddFieldsFunc in between.
C14_SnapshotAtStart ==
    \A c \in DOMAIN calls :
        Started(c) =>
            LET call == calls[c]
            IN  /\ call.fieldFuncs = FieldFuncs(call.in)
                /\ call.op = "AllFields" =>
                       call.f = MergeAll(call.in, call.out, EmptyKV)
                /\ (call.done /\ call.op = "AllFields") =>
                       MakeMap(call.f) = AllFields(call.in, call.err)
                /\ (call.done /\ call.op = "HasField") =>
                       call.ok = HasField(call.in, call.err, call.field)
                /\ (call.done /\ call.op = "HasCategory") =>
                       call.ok = HasCategory(call.in, call.err, call.category)

\* An extractor was registered during an AllFields call that, applied,
\* would have changed what the call returns.
C14_Witness ==
    \E c \in DOMAIN calls :
        /\ Returned(c) /\ calls[c].op = "AllFields" /\ calls[c].midflight
        /\ in.GetFieldsFuncs # calls[c].in.GetFieldsFuncs
        /\ AllFields(in, calls[c].err) # MakeMap(calls[c].f)

DefaultOnly(inst) == [inst EXCEPT !.GetFieldsFuncs = <<"DefaultFieldsFunc">>]

\* C15: a call on an Instance without extractors obtains from every error
\* it visits the map of the error's Fields() method (nothing when it has
\* none) and returns what the call returns on the same Instance with the
\* default extractor as its only one.
C15_NoExtractorsIsDefault ==
    \A c \in DOMAIN calls :
        (Returned(c) /\ calls[c].in.GetFieldsFuncs = <<>>) =>
            LET call == calls[c]
                inst == DefaultOnly(call.in)
            IN  /\ \A i \in 1..Len(call.out) :
                       NodeFields(call.fieldFuncs, call.out[i], EmptyKV)
                           = fields[call.out[i]].kv
                /\ call.op = "AllFields" =>
                       MakeMap(call.f) = AllFields(inst, call.err)
                /\ call.op = "HasField" =>
                       call.ok = HasField(inst, call.err, call.field)
                /\ call.op = "HasCategory" =>
                       call.ok = HasCategory(inst, call.err, call.category)

\* AllFields on an Instance without extractors has gathered a field.
C15_Witness ==
    \E c \in DOMAIN calls :
        /\ Returned(c) /\ calls[c].op = "AllFields"
        /\ calls[c].in.GetFieldsFuncs = <<>>
        /\ DOMAIN calls[c].f # {}

\* The keys the extractors of funcs return for error n, and for such a key
\* the value of the last extractor, in the order of funcs, that returns it.
KeysReturned(funcs, n) ==
    UNION {DOMAIN ApplyFieldsFunc(funcs[i], n).kv : i \in 1..Len(funcs)}

LastReturning(funcs, n, k) ==
    CHOOSE i \in 1..Len(funcs) :
        /\ k \in DOMAIN ApplyFieldsFunc(funcs[i], n).kv
        /\ \A j \in (i + 1)..Len(funcs) : k \notin DOMAIN ApplyFieldsFunc(funcs[j], n).kv

LastValues(funcs, n) ==
    [k \in KeysReturned(funcs, n) |->
        ApplyFieldsFunc(funcs[LastReturning(funcs, n, k)], n).kv[k]]

RECURSIVE MergeLastValues(_, _, _, _)
MergeLastValues(inst, funcs, vis, f) ==
    IF vis = <<>> THEN f
    ELSE MergeLastValues(inst, funcs, Tail(vis),
             MergeFields(inst, f, LastValues(funcs, Head(vis))))

\* C16: the field set of every visited error holds the keys its extractors
\* return, each with the value of the last extractor in the configured
\* order that returns it (an extractor returning nil or an empty map adds
\* and changes nothing), and these are the sets AllFields merges and
\* HasField and HasCategory test.
C16_LastExtractorWins ==
    \A c \in DOMAIN calls :
        Started(c) =>
            LET call == calls[c]
                funcs == call.fieldFuncs
            IN  /\ call.op = "AllFields" =>
                       call.f = MergeLastValues(call.in, funcs, call.out, EmptyKV)
                /\ (call.done /\ call.op = "HasField") =>
                       (call.ok <=> \E i \in 1..Len(call.out) :
                                       call.field \in DOMAIN LastValues(funcs, call.out[i]))
                /\ (call.done /\ call.op = "HasCategory") =>
                       (call.ok <=> \E i \in 1..Len(call.out) :
                                       LET nf == LastValues(funcs, call.out[i])
                                       IN  /\ FieldKeyCategory \in DOMAIN nf
                                           /\ nf[FieldKeyCategory] = call.category)

\* Fields() and FieldsMap() of one error return different categories; with
\* the default extractor first AllFields reports the FieldsMap() one.
C16_Witness ==
    \E c \in DOMAIN calls :
        /\ Returned(c) /\ calls[c].op = "AllFields" /\ calls[c].err = 1
        /\ calls[c].fieldFuncs = <<"DefaultFieldsFunc", "FieldsMapFunc">>
        /\ DOMAIN tree = {1}
        /\ FieldKeyCategory \in DOMAIN fields[1].kv
        /\ FieldKeyCategory \in DOMAIN fieldsMap[1].kv
        /\ fields[1].kv[FieldKeyCategory] # fieldsMap[1].kv[FieldKeyCategory]
        /\ calls[c].f[FieldKeyCategory] = Val(fieldsMap[1].kv[FieldKeyCategory])

(***************************************************************************)
(* Errors without fields                                                   *)
(***************************************************************************)
\* The errors of vis from which the extractors obtain some field.
RECURSIVE WithFields(_)
WithFields(vis) ==
    IF vis = <<>> THEN <<>>
    ELSE (IF FieldsOf(Head(vis)) = EmptyKV THEN <<>> ELSE <<Head(vis)>>)
             \o WithFields(Tail(vis))

\* C17: the errors the traversal visits that yield no fields add nothing
\* and end nothing: AllFields returns what merging the fields of the other
\* visited errors, in order, gives, and HasField and HasCategory answer for
\* the fields of all of those, the ones visited after an error without
\* fields included.
C17_BareNodesSkipped ==
    LET vis == Visited(ret.err)
        rest == WithFields(vis)
    IN  /\ ret.op = "AllFields" =>
               ret.map = MakeMap(MergeAll(in, rest, EmptyKV))
        /\ ret.op = "HasField" =>
               (ret.ok <=> \E i \in 1..Len(rest) : ret.field \in DOMAIN FieldsOf(rest[i]))
        /\ ret.op = "HasCategory" =>
               (ret.ok <=> \E i \in 1..Len(rest) :
                              /\ FieldKeyCategory \in DOMAIN FieldsOf(rest[i])
                              /\ FieldsOf(rest[i])[FieldKeyCategory] = ret.category)

\* A wrapping error without fields is visited before an error whose
\* category AllFields reports.
C17_Witness ==
    /\ ret.op = "AllFields" /\ ret.err = 1
    /\ LET vis == Visited(ret.err)
       IN  \E i, j \in 1..Len(vis) :
               /\ i < j
               /\ tree[vis[i]].kind = "wrap" /\ FieldsOf(vis[i]) = EmptyKV
               /\ FieldKeyCategory \in DOMAIN FieldsOf(vis[j])
               /\ FieldKeyCategory \in DOMAIN ret.map.kv
               /\ ret.map.kv[FieldKeyCategory] = Val(FieldsOf(vis[j])[FieldKeyCategory])

(***************************************************************************)
(* Properties of Handle                                                    *)
(***************************************************************************)
\* The hooks the last operation ran, in order.
RanHooks == [i \in 1..Len(hooklog) |-> hooklog[i].hook]

\* Handle runs nothing for a nil error, the default log hook once when no
\* handle hook is registered, and otherwise every registered hook once, in
\* registration order, each on the error handled.
HandleRanRegistered ==
    /\ \A i \in 1..Len(hooklog) : hooklog[i].err = last.err
    /\ last.err = Nil => hooklog = <<>>
    /\ (last.err # Nil /\ last.hooks = <<>>) => RanHooks = <<"DefaultLogHook">>
    /\ (last.err # Nil /\ last.hooks # <<>>) => RanHooks = last.hooks

\* C19 as claimed: as above, and with a handle hook registered Handle does
\* not run the default log hook.
C19_NeverLogsWithHooks ==
    last.op = "Handle" =>
        /\ HandleRanRegistered
        /\ (last.err # Nil /\ last.hooks # <<>>) =>
               "DefaultLogHook" \notin Range(RanHooks)

\* C19 amended: Handle runs nothing for a nil error, the default log hook
\* once when no handle hook is registered, and otherwise exactly the
\* registered hooks, once each in registration order; the default log hook
\* then runs only if it is one of the registered hooks.
C19_RunsRegisteredOrDefault ==
    last.op = "Handle" =>
        /\ HandleRanRegistered
        /\ (last.err # Nil /\ last.hooks # <<>>) =>
               ("DefaultLogHook" \in Range(RanHooks)
                    <=> "DefaultLogHook" \in Range(last.hooks))

\* The two hooks of the package documentation are registered and both ran,
\* in that order.
C19_Witness ==
    /\ last.op = "Handle" /\ last.err # Nil
    /\ last.hooks = <<"metricOnError", "DefaultLogHook">>
    /\ RanHooks = <<"metricOnError", "DefaultLogHook">>

(***************************************************************************)
(* Properties of contexts and of the creation of errors                    *)
(***************************************************************************)
WrapOps == {"Wrap", "Wrapf", "QuickWrap", "WrapHTTP", "WrapHTTPf"}

\* C18: Wrap, Wrapf, QuickWrap, WrapHTTP and WrapHTTPf, called with a nil
\* error to wrap, return nil and run no create hook.
C18_NilWrapReturnsNil ==
    (last.op \in WrapOps /\ last.err = Nil) => (last.res = Nil /\ hooklog = <<>>)

\* A nil error was given to WrapHTTPf while create hooks are registered
\* that ran for an error made before.
C18_Witness ==
    /\ last.op = "WrapHTTPf"
    /\ last.err = Nil
    /\ last.res = Nil
    /\ in.CreateHooks # <<>>
    /\ Impls # {}

\* What a call of SetField or SetFields on the context ctx, which lays the
\* pairs over on its fields, leaves: a context that was not there before,
\* with the fields of ctx and over them the pairs; every map that was there,
\* the fields of ctx and the fields of every error as they were.
SetFieldFrame(ctx, over) ==
    /\ last'.res \notin DOMAIN ctxs \cup {Background}
    /\ last'.res \in DOMAIN ctxs'
    /\ ctxs'[last'.res] = Overlay(CtxFields(ctxs, ctx).kv, over)
    /\ \A m \in DOMAIN ctxs : ctxs'[m] = ctxs[m]
    /\ CtxFields(ctxs', ctx) = CtxFields(ctxs, ctx)
    /\ DOMAIN tree' = DOMAIN tree
    /\ \A e \in DOMAIN tree : fields'[e] = fields[e]

Hooked(set) == [k \in DOMAIN set |-> RunFieldHooks(in.FieldHooks, set[k])]

\* C20: SetField and SetFields return a new context whose fields are the
\* fields of the input context overlaid with the given keys (each with its
\* value as the field hooks return it); the fields seen through the input
\* context and through every error made before are unchanged.
C20_SetFieldOverlaysNewContext ==
    [][/\ last'.op = "SetField" =>
            \A kv \in SetFieldArgs :
                SetFieldOf(last'.ctx, kv[1], kv[2])
                    => SetFieldFrame(last'.ctx, Hooked((kv[1] :> kv[2])))
       /\ last'.op = "SetFields" =>
            \A set \in SetFieldsArgs :
                SetFieldsOf(last'.ctx, set) => SetFieldFrame(last'.ctx, Hooked(set))]_vars

\* SetField has returned a context made from one that has fields, that an
\* error keeps, and the fields of the two differ.
C20_Witness ==
    /\ last.op = "SetField"
    /\ last.ctx # Background
    /\ \E e \in Impls : errctx[e] = last.ctx /\ fields[e] = CtxFields(ctxs, last.ctx)
    /\ last.res # last.ctx
    /\ ctxs[last.res] # ctxs[last.ctx]

(***************************************************************************)
(* Properties of codes                                                     *)
(***************************************************************************)
HasCodeHook == "SetCodeHook" \in Range(in.CreateHooks)

\* The error a step has made has the field error_code = code.
CodeIsField(code) ==
    /\ FieldKeyCode \in DOMAIN fields'[last'.res].kv
    /\ fields'[last'.res].kv[FieldKeyCode] = code

\* The error a step has made has no field error_code.
NoCodeField == FieldKeyCode \notin DOMAIN fields'[last'.res].kv

\* What a step that makes an error with the given code leaves: the code, when
\* not empty, is a field of the error; whatever create hooks are registered
\* (anyHooks), or only if SetCodeHook is registered.
CodeFrame(code, anyHooks) ==
    last'.res # Nil =>
        IF code # EmptyCode /\ (anyHooks \/ HasCodeHook)
        THEN CodeIsField(code) ELSE NoCodeField

\* AllFields of every error made reports the error_code of the last error
\* it visits that has one, and none when no visited error has one.
ReportsLastCode ==
    \A e \in Impls :
        LET codes == ValuesSet(Visited(e), FieldKeyCode)
            f == AllFields(in, e).kv
        IN  IF codes = <<>> THEN FieldKeyCode \notin DOMAIN f
            ELSE FieldKeyCode \in DOMAIN f /\ f[FieldKeyCode] = Val(Last(codes))

\* The steps of New, Newf, Wrap, Wrapf and QuickWrap leave what CodeFrame
\* says.
CodeSteps(anyHooks) ==
    /\ last'.op = "New" =>
        \A ctx \in Contexts, code \in Codes(tree) : NewOf(ctx, code) => CodeFrame(code, anyHooks)
    /\ last'.op = "Newf" =>
        \A ctx \in Contexts, code \in Codes(tree) : NewfOf(ctx, code) => CodeFrame(code, anyHooks)
    /\ last'.op = "Wrap" =>
        \A ctx \in Contexts, err \in WrapTargets, code \in Codes(tree) :
            WrapOf(ctx, err, code) => CodeFrame(code, anyHooks)
    /\ last'.op = "Wrapf" =>
        \A ctx \in Contexts, err \in WrapTargets, code \in Codes(tree) :
            WrapfOf(ctx, err, code) => CodeFrame(code, anyHooks)
    /\ last'.op = "QuickWrap" =>
        \A ctx \in Contexts, err \in WrapTargets : 
            QuickWrapOf(ctx, err) => CodeFrame(EmptyCode, anyHooks)

C22_TerminatesWithoutFailure ==
    /\ \A e \in DOMAIN tree : Len(Visited(e)) <= Cardinality(DOMAIN tree)
    /\ ret.op # "none" => ~ret.panic

(***************************************************************************)
(* Early exit of HasField                                                  *)
(***************************************************************************)
\* The extractors of the call obtain the field of the call from the error n.
CallHasKey(call, n) == call.field \in DOMAIN NodeFields(call.fieldFuncs, n, EmptyKV)

\* C23: the errors a HasField call has taken from Next are the first ones of
\* the traversal order; none of them but the last has the key; the call
\* returns true when and only when the last one taken has it, that is at the
\* first error in traversal order with the key, without taking any later
\* error from Next or applying an extractor to it; it returns false only
\* when Next has returned nil, after every error of the traversal.
C23_HasFieldStopsAtFirst ==
    \A c \in DOMAIN calls :
        (Started(c) /\ calls[c].op = "HasField") =>
            LET call == calls[c]
                vis == Visited(call.err)
            IN  /\ IsPrefix(call.out, vis)
                /\ \A i \in 1..(Len(call.out) - 1) : ~CallHasKey(call, call.out[i])
                /\ call.ok => call.done
                /\ call.ok <=> (call.out # <<>> /\ CallHasKey(call, Last(call.out)))
                /\ (call.done /\ ~call.ok) => call.out = vis

\* HasField has returned true at an error that is not the last of the
\* traversal order, and a later one has the key as well.
C23_Witness ==
    \E c \in DOMAIN calls :
        LET call == calls[c]
            vis == Visited(call.err)
        IN  /\ call.op = "HasField" /\ call.done /\ call.ok
            /\ Len(call.out) < Len(vis)
            /\ \E i \in (Len(call.out) + 1)..Len(vis) : CallHasKey(call, vis[i])

(***************************************************************************)
(* Decomposition of joined errors                                          *)
(***************************************************************************)
\* The candidate of the iterator followed by its pending errors.
Waiting(it) == <<it.next>> \o it.nextParent

\* C24: a Next call whose candidate is a joined error with a list that is
\* not empty returns the first entry of the list, not the joined error, and
\* puts the remaining entries in front of the pending errors, in the order
\* of the list: after the call the error the returned one wraps is the
\* candidate with all of them pending, or, when it wraps none, they are the
\* candidate and the pending errors.
C24_JoinIsSplit ==
    [][(Next /\ HasUnwrapMany(bfu.next) /\ Len(tree[bfu.next].errs) > 0) =>
          LET errs == tree[bfu.next].errs
              queue == Tail(errs) \o bfu.nextParent
          IN  /\ r' = errs[1]
              /\ r' # bfu.next
              /\ IF HasUnwrapOne(r') /\ tree[r'].wrapped # Nil
                 THEN bfu' = [next |-> tree[r'].wrapped, nextParent |-> queue]
                 ELSE IF queue = <<>>
                      THEN bfu' = [next |-> Nil, nextParent |-> <<>>]
                      ELSE Waiting(bfu') = queue]_vars

\* Next has split a joined error of two or more while an error was pending:
\* it returned the first entry, and the remaining entries are waiting in
\* front of the error that was pending.
C24_Witness ==
    /\ made
    /\ r # Nil
    /\ out # <<>> /\ Last(out) = r
    /\ \E j \in DOMAIN tree :
        LET queue == IF HasUnwrapOne(r) /\ tree[r].wrapped # Nil
                     THEN bfu.nextParent ELSE Waiting(bfu)
        IN  /\ tree[j].kind = "join"
            /\ Len(tree[j].errs) >= 2
            /\ tree[j].errs[1] = r
            /\ Len(queue) > Len(tree[j].errs) - 1
            /\ SubSeq(queue, 1, Len(tree[j].errs) - 1) = Tail(tree[j].errs)

\* The errors under e that an iterator is to return: all but the joined
\* errors that are split.
Yieldable(e) == {n \in Under(e) : tree[n].kind # "join" \/ tree[n].errs = <<>>}

\* The joined error j, under the error the iterator was made on, was split:
\* its first entry was returned.
Decomposed(j) ==
    /\ j \in Under(root)
    /\ tree[j].kind = "join"
    /\ tree[j].errs # <<>>
    /\ tree[j].errs[1] \in Range(out)

\* n was returned, and before m if m was returned.
YieldedBefore(n, m) == n \in Range(out) /\ (m \in Range(out) => Pos(out, n) < Pos(out, m))

\* The errors that were pending from a joined error around j when j was
\* split: those under a later entry of a list in which j is under an
\* earlier entry.
PendingAround(j) ==
    UNION {UNION {Yieldable(tree[a].errs[k]) :
                     k \in {l \in 2..Len(tree[a].errs) :
                               \E i \in 1..(l - 1) : j \in Under(tree[a].errs[i])}} :
              a \in {n \in Under(root) : tree[n].kind = "join"}}

\* C25: when the iterator has come to its end, for every joined error that
\* was split, every error under its first entry was returned before any
\* error under its remaining entries, and every error under its remaining
\* entries was returned before any error that was pending from a joined
\* error around it.
C25_SubtreeBeforeSiblings ==
    (made /\ bfu.next = Nil) =>
        \A j \in DOMAIN tree :
            Decomposed(j) =>
                LET errs == tree[j].errs
                    rest == UNION {Yieldable(errs[i]) : i \in 2..Len(errs)}
                IN  /\ \A n \in Yieldable(errs[1]) :
                        /\ n \in Range(out)
                        /\ \A m \in rest : YieldedBefore(n, m)
                    /\ \A m \in rest : \A p \in PendingAround(j) : YieldedBefore(m, p)

\* The errors of vis whose extractors return key k, in the order of vis.
Setters(funcs, vis, k) ==
    SelectSeq(vis, LAMBDA n : k \in KeysReturned(funcs, n))

\* C26: under a key of FieldsAsSlice the result of AllFields holds a slice,
\* also when one error alone sets the key, with exactly one element per
\* visited error whose field set has the key: the value of the last
\* extractor returning it, appended whole when it is itself a slice.
C26_OneElementPerNode ==
    \A c \in DOMAIN calls :
        (Started(c) /\ calls[c].op = "AllFields") =>
            LET call == calls[c]
                funcs == call.fieldFuncs
            IN  \A k \in Range(call.in.FieldsAsSlice) :
                    LET setters == Setters(funcs, call.out, k)
                    IN  IF setters = <<>>
                        THEN k \notin DOMAIN call.f
                        ELSE /\ k \in DOMAIN call.f
                             /\ call.f[k].slice
                             /\ Len(call.f[k].items) = Len(setters)
                             /\ \A i \in 1..Len(setters) :
                                    call.f[k].items[i] =
                                        LastValues(funcs, setters[i])[k]

\* Two extractors both return the location of the first error and the
\* location of the second error is a slice: the result lists two elements,
\* the second one being that slice.
C26_Witness ==
    /\ calls[1].op = "AllFields" /\ calls[1].done
    /\ Len(calls[1].fieldFuncs) = 2
    /\ calls[1].out = <<1, 2>>
    /\ FieldKeyLocation \in DOMAIN fields[1].kv
    /\ FieldKeyLocation \in DOMAIN fieldsMap[1].kv
    /\ fields[2] = MakeMap((FieldKeyLocation :> SliceValue))
    /\ fieldsMap[2] = NilMap
    /\ Len(calls[1].f[FieldKeyLocation].items) = 2
    /\ calls[1].f[FieldKeyLocation].items[2] = SliceValue

\* No Unwrap() []error of the tree lists a nil error.
NoNilEntry ==
    \A n \in DOMAIN tree :
        tree[n].kind = "join" => Nil \notin Range(tree[n].errs)

\* C27: over a tree whose lists hold no nil entry, whenever bfu.next is nil
\* bfu.nextParent is empty, so HasNext does not answer false while an error
\* is pending.
C27_NilNextMeansNothingPending ==
    NoNilEntry =>
        /\ bfu.next = Nil => bfu.nextParent = <<>>
        /\ hn = "false" => bfu.nextParent = <<>>

\* HasNext answered false after a joined error of two entries or more was
\* split and its entries were taken from the pending ones.
C27_Witness ==
    /\ NoNilEntry
    /\ made /\ hn = "false"
    /\ \E j \in DOMAIN tree :
        /\ tree[j].kind = "join" /\ Len(tree[j].errs) >= 2
        /\ \A i \in 1..Len(tree[j].errs) : tree[j].errs[i] \in Range(out)

\* The joined errors under e whose first entry is a joined error.
JoinFirstInJoin(e) ==
    {j \in Under(e) :
        /\ tree[j].kind = "join" /\ tree[j].errs # <<>>
        /\ HasUnwrapMany(tree[j].errs[1])}

\* C28: when the first entry of a joined error is itself a joined error,
\* the errors under the inner one are still returned by the iterator,
\* before the remaining entries of the outer one, and the keys they set are
\* keys of AllFields.
C28_InnerJoinStillYielded ==
    (ret.op = "AllFields" /\ ret.err # Nil) =>
        LET vis == Visited(ret.err)
        IN  \A j \in JoinFirstInJoin(ret.err) :
                \A n \in Under(tree[j].errs[1]) \ {tree[j].errs[1]} :
                    /\ n \in Range(vis)
                    /\ \A i \in 2..Len(tree[j].errs) :
                           tree[j].errs[i] \in Range(vis) =>
                               Pos(vis, n) < Pos(vis, tree[j].errs[i])
                    /\ DOMAIN FieldsOf(n) \subseteq DOMAIN ret.map.kv

\* A step in which the caller changes a map it holds.
CallerChangesMap == Len(calls') = Len(calls) /\ calls' # calls

InstanceOf(call) == [call.in EXCEPT !.GetFieldsFuncs = call.fieldFuncs]

\* C30: whenever HasCategory(err, v) has returned true, HasField(err,
\* FieldKeyCategory) on the same Instance is true and FieldKeyCategory is a
\* key of the map AllFields(err) returns.
C30_CategoryFoundIsAField ==
    \A c \in DOMAIN calls :
        (calls[c].op = "HasCategory" /\ calls[c].done /\ calls[c].ok) =>
            /\ HasField(InstanceOf(calls[c]), calls[c].err, FieldKeyCategory)
            /\ FieldKeyCategory \in
                   DOMAIN AllFields(InstanceOf(calls[c]), calls[c].err).kv

\* HasCategory found the category the second extractor returns for the
\* second error; the first error has no category.
C30_Witness ==
    /\ calls[1].op = "HasCategory" /\ calls[1].done /\ calls[1].ok
    /\ Len(calls[1].fieldFuncs) = 2
    /\ calls[1].out = <<1, 2>>
    /\ calls[1].category = 2
    /\ fieldsMap[2] = MakeMap((FieldKeyCategory :> 2))

====
